---- MODULE Spec2Model ----
(***************************************************************************)
(* A model of the Worker of src/index.ts: the fetch handler (routing),     *)
(* the CORS helpers corsifyResponse and corsify, and handleChatRequest.    *)
(* One request is handled at a time; a step of the model is the code that  *)
(* runs between two awaits.  The collaborators env.ASSETS.fetch and        *)
(* env.AI.run answer with any response of a small set, or throw.           *)
(***************************************************************************)
EXTENDS Integers, Sequences, FiniteSets, TLC

VARIABLES
    pc,           \* where the handling of the current request stands
    request,      \* the request given to fetch: method, path, body
    assetCalls,   \* calls of env.ASSETS.fetch made for this request
    assetArg,     \* the request env.ASSETS.fetch was called with
    assetResp,    \* const assetResp (index.ts:41)
    aiCalls,      \* calls of env.AI.run made for this request
    aiArgs,       \* the arguments env.AI.run was called with
    aiOutcome,    \* "none", "pending", "returned" or "threw"
    aiResp,       \* const response (index.ts:114)
    resp,         \* const resp (index.ts:50), what handleChatRequest returned
    response,     \* the Response fetch returned
    returned,     \* fetch returned a Response
    threw         \* fetch rejected: an exception escaped it

vars == <<pc, request, assetCalls, assetArg, assetResp, aiCalls, aiArgs,
          aiOutcome, aiResp, resp, response, returned, threw>>

----------------------------------------------------------------------------
(* Bounds *)

\* the longest messages array a request body carries
MaxMsgs == 2

----------------------------------------------------------------------------
(* Constants of the program *)

MODEL_ID == "@cf/meta/llama-3.3-70b-instruct-fp8-fast"

\* the text of index.ts:18, shortened to its first sentence
SYSTEM_PROMPT == "You are a Open Radio Access Network security expert. ..."

MAX_TOKENS == 1024

\* Object.entries(CORS_HEADERS), in the order of the literal
CORS_HEADERS ==
    << <<"Access-Control-Allow-Origin", "*">>,
       <<"Access-Control-Allow-Methods", "GET, POST, PUT, DELETE, OPTIONS">>,
       <<"Access-Control-Allow-Headers", "Content-Type, Authorization">> >>

----------------------------------------------------------------------------
(* Paths: url.pathname as a sequence of characters *)

StartsWith(s, prefix) ==
    /\ Len(s) >= Len(prefix)
    /\ SubSeq(s, 1, Len(prefix)) = prefix

PathRoot == <<"/">>
PathApi == <<"/", "a", "p", "i">>
PathApiSlash == PathApi \o <<"/">>
PathChat == PathApiSlash \o <<"c", "h", "a", "t">>

Paths ==
    { PathRoot,
      <<"/", "i", "n", "d", "e", "x", ".", "h", "t", "m", "l">>,
      PathApi,
      PathApi \o <<"a", "r", "y">>,
      PathApiSlash,
      PathChat,
      PathChat \o <<"/">>,
      PathChat \o <<"/", "x">>,
      PathApiSlash \o <<"u", "n", "k", "n", "o", "w", "n">> }

Methods == {"GET", "POST", "PUT", "DELETE", "OPTIONS"}

----------------------------------------------------------------------------
(* Request bodies: the text of the body by what JSON.parse makes of it *)

\* an element of a messages array: a message object, null, or a primitive
NoRole == "-"
MsgElem(role, content) == [kind |-> "msg", role |-> role, content |-> content]
NullElem == [kind |-> "null", role |-> NoRole, content |-> ""]
PrimElem == [kind |-> "prim", role |-> NoRole, content |-> "5"]

Elements ==
    { MsgElem("system", "custom"), MsgElem("user", "x"),
      MsgElem("assistant", "y"), NullElem, PrimElem }

SeqsUpTo(S, n) == UNION { [1..k -> S] : k \in 0..n }

\* the messages member of the parsed object
MsgField(kind, items) == [kind |-> kind, items |-> items]
AbsentField == MsgField("absent", <<>>)
EmptyArray == MsgField("array", <<>>)

MsgFields ==
    { AbsentField, MsgField("null", <<>>), MsgField("prim", <<>>),
      MsgField("object", <<>>) }
    \cup { MsgField("array", items) : items \in SeqsUpTo(Elements, MaxMsgs) }

Body(kind, messages) == [kind |-> kind, messages |-> messages]
\* no body at all: request.json() rejects as for text that is not JSON
NoBody == Body("none", AbsentField)

Bodies ==
    { NoBody, Body("invalid", AbsentField), Body("null", AbsentField),
      Body("prim", AbsentField), Body("array", AbsentField) }
    \cup { Body("object", f) : f \in MsgFields }

Requests ==
    { [method |-> m, path |-> p, body |-> b] :
        m \in Methods, p \in Paths, b \in Bodies }

\* a request this model hands to fetch: only POST and PUT carry a body
Incoming(req) ==
    /\ req \in Requests
    /\ req.body # NoBody => req.method \in {"POST", "PUT"}

----------------------------------------------------------------------------
(* Headers and Response *)

\* a header name in the form Headers keeps it (lower case)
Lower(name) ==
    CASE name = "Access-Control-Allow-Origin" -> "access-control-allow-origin"
      [] name = "Access-Control-Allow-Methods" -> "access-control-allow-methods"
      [] name = "Access-Control-Allow-Headers" -> "access-control-allow-headers"
      [] name = "Content-Type" -> "content-type"
      [] OTHER -> name

EmptyHeaders == [n \in {} |-> ""]

HeadersHas(h, name) == Lower(name) \in DOMAIN h
HeadersGet(h, name) == h[Lower(name)]
HeadersSet(h, name, value) ==
    [n \in DOMAIN h \cup {Lower(name)} |->
        IF n = Lower(name) THEN value ELSE h[n]]

\* a body: null, a text given to the constructor, or a stream
NullBody == [kind |-> "null", data |-> ""]
TextBody(s) == [kind |-> "text", data |-> s]
StreamBody(s) == [kind |-> "stream", data |-> s]

\* response.body: null, or the stream of the body's bytes
BodyOf(r) == IF r.body.kind = "null" THEN NullBody ELSE StreamBody(r.body.data)

\* new Response(body, { status, headers }): a text body with no content-type
\* given gets text/plain
NewResponse(body, status, headers) ==
    [status |-> status,
     body |-> body,
     headers |->
        IF body.kind = "text" /\ ~HeadersHas(headers, "content-type")
        THEN HeadersSet(headers, "content-type", "text/plain;charset=UTF-8")
        ELSE headers]

NoResponse == [status |-> 0, body |-> NullBody, headers |-> EmptyHeaders]

----------------------------------------------------------------------------
(* The CORS helpers *)

RECURSIVE SetAll(_, _)
\* for (const [k, v] of Object.entries(CORS_HEADERS)) headers.set(k, v)
SetAll(headers, entries) ==
    IF entries = <<>> THEN headers
    ELSE SetAll(HeadersSet(headers, Head(entries)[1], Head(entries)[2]),
                Tail(entries))

\* corsifyResponse(body, { status, headers: initHeaders })
corsifyResponse(body, status, initHeaders) ==
    NewResponse(body, status, SetAll(initHeaders, CORS_HEADERS))

RECURSIVE SetAbsent(_, _)
SetAbsent(headers, entries) ==
    IF entries = <<>> THEN headers
    ELSE SetAbsent(IF HeadersHas(headers, Head(entries)[1]) THEN headers
                   ELSE HeadersSet(headers, Head(entries)[1], Head(entries)[2]),
                   Tail(entries))

\* corsify that leaves a CORS header the response already has
corsifyKeepExisting(r) ==
    NewResponse(BodyOf(r), r.status, SetAbsent(r.headers, CORS_HEADERS))

\* corsify that does not pass the status on
corsifyDefaultStatus(r) ==
    NewResponse(BodyOf(r), 200, SetAll(r.headers, CORS_HEADERS))

\* corsify that starts from empty headers
corsifyFreshHeaders(r) ==
    NewResponse(BodyOf(r), r.status, SetAll(EmptyHeaders, CORS_HEADERS))

\* corsify(response)
corsify(r) ==
    NewResponse(BodyOf(r), r.status, SetAll(r.headers, CORS_HEADERS))

----------------------------------------------------------------------------
(* The router: the conditions of fetch, in the order of the code *)

\* the preflight test made after the /api/chat route
RoutePreflightLast(req) ==
    IF req.path = PathRoot \/ ~StartsWith(req.path, PathApiSlash) THEN "asset"
    ELSE IF req.path = PathChat
         THEN (IF req.method = "POST" THEN "chat" ELSE "405")
    ELSE IF req.method = "OPTIONS" THEN "preflight"
    ELSE "404"

\* the asset test without its second disjunct
RouteAssetRootOnly(req) ==
    IF req.method = "OPTIONS" /\ StartsWith(req.path, PathApiSlash)
    THEN "preflight"
    ELSE IF req.path = PathRoot THEN "asset"
    ELSE IF req.path = PathChat
         THEN (IF req.method = "POST" THEN "chat" ELSE "405")
    ELSE "404"

\* the /api/chat route without its method test
RouteChatAnyMethod(req) ==
    IF req.method = "OPTIONS" /\ StartsWith(req.path, PathApiSlash)
    THEN "preflight"
    ELSE IF req.path = PathRoot \/ ~StartsWith(req.path, PathApiSlash)
    THEN "asset"
    ELSE IF req.path = PathChat THEN "chat"
    ELSE "404"

\* the /api/chat route matched by prefix
RouteChatPrefix(req) ==
    IF req.method = "OPTIONS" /\ StartsWith(req.path, PathApiSlash)
    THEN "preflight"
    ELSE IF req.path = PathRoot \/ ~StartsWith(req.path, PathApiSlash)
    THEN "asset"
    ELSE IF StartsWith(req.path, PathChat)
         THEN (IF req.method = "POST" THEN "chat" ELSE "405")
    ELSE "404"

RouteOf(req) ==
    IF req.method = "OPTIONS" /\ StartsWith(req.path, PathApiSlash)
    THEN "preflight"
    ELSE IF req.path = PathRoot \/ ~StartsWith(req.path, PathApiSlash)
    THEN "asset"
    ELSE IF req.path = PathChat
         THEN (IF req.method = "POST" THEN "chat" ELSE "405")
    ELSE "404"

----------------------------------------------------------------------------
(* handleChatRequest: the try block up to the call of env.AI.run *)

\* await request.json() resolves
JsonParses(body) == body.kind \notin {"none", "invalid"}

\* const { messages = [] } = value throws for null
DestructureThrows(body) == body.kind = "null"

\* the binding messages: the member when the value has one, else []
DestructuredMessages(body) ==
    IF body.kind = "object" /\ body.messages.kind # "absent"
    THEN body.messages
    ELSE EmptyArray

\* the test msg.role === "system" made with msg?.role
RECURSIVE SomeSystemOptional(_)
SomeSystemOptional(items) ==
    IF items = <<>> THEN "false"
    ELSE IF Head(items).kind = "msg" /\ Head(items).role = "system" THEN "true"
    ELSE SomeSystemOptional(Tail(items))

\* messages.some((msg) => msg.role === "system"): "true", "false", or
\* "throw" when msg is null at an element reached before a system message
RECURSIVE SomeSystem(_)
SomeSystem(items) ==
    IF items = <<>> THEN "false"
    ELSE IF Head(items).kind = "null" THEN "throw"
    ELSE IF Head(items).kind = "msg" /\ Head(items).role = "system" THEN "true"
    ELSE SomeSystem(Tail(items))

SystemMessage == MsgElem("system", SYSTEM_PROMPT)

\* the test made on messages[0] alone
AddSystemPromptFirstOnly(items) ==
    IF items # <<>> /\ Head(items).kind = "msg" /\ Head(items).role = "system"
    THEN items
    ELSE <<SystemMessage>> \o items

\* if (!messages.some(...)) messages.unshift({ role: "system", ... })
AddSystemPrompt(items) ==
    IF SomeSystem(items) = "false" THEN <<SystemMessage>> \o items ELSE items

\* a failed parse replaced by an empty object
ReachesInferenceAlways(body) == TRUE

\* the try block reaches env.AI.run: nothing before it throws
ReachesInference(body) ==
    /\ JsonParses(body)
    /\ ~DestructureThrows(body)
    /\ DestructuredMessages(body).kind = "array"
    /\ SomeSystem(DestructuredMessages(body).items) # "throw"

ErrorJson == "{\"error\":\"Failed to process request\"}"

\* the catch block's response
ErrorResponse ==
    corsifyResponse(TextBody(ErrorJson), 500,
                    HeadersSet(EmptyHeaders, "content-type", "application/json"))

----------------------------------------------------------------------------
(* The collaborators' answers *)

CollabHeaders ==
    { EmptyHeaders,
      HeadersSet(EmptyHeaders, "content-type", "text/event-stream"),
      HeadersSet(HeadersSet(HeadersSet(EmptyHeaders,
            "content-type", "text/html"),
            "access-control-allow-origin", "https://example.com"),
            "x-custom", "1") }

\* what env.ASSETS.fetch or env.AI.run resolves to
CollabResponses ==
    { [status |-> st, body |-> StreamBody("chunks"), headers |-> h] :
        st \in {200, 404}, h \in CollabHeaders }
    \cup { [status |-> 304, body |-> NullBody, headers |-> EmptyHeaders] }

NoRequest == [method |-> "", path |-> <<>>, body |-> NoBody]
NoArgs ==
    [model |-> "", messages |-> <<>>, max_tokens |-> 0,
     returnRawResponse |-> FALSE]

----------------------------------------------------------------------------
(* The state machine *)

Init ==
    /\ pc = "Idle"
    /\ request = NoRequest
    /\ assetCalls = 0
    /\ assetArg = NoRequest
    /\ assetResp = NoResponse
    /\ aiCalls = 0
    /\ aiArgs = NoArgs
    /\ aiOutcome = "none"
    /\ aiResp = NoResponse
    /\ resp = NoResponse
    /\ response = NoResponse
    /\ returned = FALSE
    /\ threw = FALSE

\* the runtime calls fetch(request, env, ctx)
Receive(req) ==
    /\ pc = "Idle"
    /\ Incoming(req)
    /\ pc' = "Received"
    /\ request' = req
    /\ UNCHANGED <<assetCalls, assetArg, assetResp, aiCalls, aiArgs, aiOutcome,
                   aiResp, resp, response, returned, threw>>

\* the handling has ended and its locals are gone: nothing of a request is
\* kept for the next one
Release ==
    /\ pc = "Done"
    /\ pc' = "Idle"
    /\ request' = NoRequest
    /\ assetCalls' = 0
    /\ assetArg' = NoRequest
    /\ assetResp' = NoResponse
    /\ aiCalls' = 0
    /\ aiArgs' = NoArgs
    /\ aiOutcome' = "none"
    /\ aiResp' = NoResponse
    /\ resp' = NoResponse
    /\ response' = NoResponse
    /\ returned' = FALSE
    /\ threw' = FALSE

\* fetch returns `r`
Return(r) ==
    /\ response' = r
    /\ returned' = TRUE
    /\ pc' = "Done"

\* index.ts:32-37
Preflight ==
    /\ pc = "Received"
    /\ RouteOf(request) = "preflight"
    /\ Return(corsifyResponse(NullBody, 204, EmptyHeaders))
    /\ UNCHANGED <<request, assetCalls, assetArg, assetResp, aiCalls, aiArgs,
                   aiOutcome, aiResp, resp, threw>>

\* index.ts:40-41, up to the await
AssetCall ==
    /\ pc = "Received"
    /\ RouteOf(request) = "asset"
    /\ assetCalls' = assetCalls + 1
    /\ assetArg' = request
    /\ pc' = "AssetCall"
    /\ UNCHANGED <<request, assetResp, aiCalls, aiArgs, aiOutcome, aiResp,
                   resp, response, returned, threw>>

\* env.ASSETS.fetch resolves; index.ts:41-42
AssetReturn(r) ==
    /\ pc = "AssetCall"
    /\ assetResp' = r
    /\ Return(corsify(r))
    /\ UNCHANGED <<request, assetCalls, assetArg, aiCalls, aiArgs, aiOutcome,
                   aiResp, resp, threw>>

\* env.ASSETS.fetch rejects: nothing in fetch catches it
AssetThrow ==
    /\ pc = "AssetCall"
    /\ threw' = TRUE
    /\ pc' = "Done"
    /\ UNCHANGED <<request, assetCalls, assetArg, assetResp, aiCalls, aiArgs,
                   aiOutcome, aiResp, resp, response, returned>>

\* index.ts:46-50 and 103-105: handleChatRequest is called and awaits
\* request.json()
ChatCall ==
    /\ pc = "Received"
    /\ RouteOf(request) = "chat"
    /\ pc' = "Parsing"
    /\ UNCHANGED <<request, assetCalls, assetArg, assetResp, aiCalls, aiArgs,
                   aiOutcome, aiResp, resp, response, returned, threw>>

\* index.ts:55
MethodNotAllowed ==
    /\ pc = "Received"
    /\ RouteOf(request) = "405"
    /\ Return(corsifyResponse(TextBody("Method not allowed"), 405,
                              EmptyHeaders))
    /\ UNCHANGED <<request, assetCalls, assetArg, assetResp, aiCalls, aiArgs,
                   aiOutcome, aiResp, resp, threw>>

\* index.ts:59
NotFound ==
    /\ pc = "Received"
    /\ RouteOf(request) = "404"
    /\ Return(corsifyResponse(TextBody("Not found"), 404, EmptyHeaders))
    /\ UNCHANGED <<request, assetCalls, assetArg, assetResp, aiCalls, aiArgs,
                   aiOutcome, aiResp, resp, threw>>

\* index.ts:105-129: the body is parsed, the prompt added, env.AI.run called
Forward ==
    /\ pc = "Parsing"
    /\ ReachesInference(request.body)
    /\ aiCalls' = aiCalls + 1
    /\ aiArgs' =
        [model |-> MODEL_ID,
         messages |-> AddSystemPrompt(DestructuredMessages(request.body).items),
         max_tokens |-> MAX_TOKENS,
         returnRawResponse |-> TRUE]
    /\ aiOutcome' = "pending"
    /\ pc' = "Forwarding"
    /\ UNCHANGED <<request, assetCalls, assetArg, assetResp, aiResp, resp,
                   response, returned, threw>>

\* index.ts:105-112 throws; the catch block builds the 500 response
ParseFail ==
    /\ pc = "Parsing"
    /\ ~ReachesInference(request.body)
    /\ resp' = ErrorResponse
    /\ pc' = "Errored"
    /\ UNCHANGED <<request, assetCalls, assetArg, assetResp, aiCalls, aiArgs,
                   aiOutcome, aiResp, response, returned, threw>>

\* env.AI.run resolves; index.ts:114, 132
AIReturn(r) ==
    /\ pc = "Forwarding"
    /\ aiResp' = r
    /\ resp' = r
    /\ aiOutcome' = "returned"
    /\ pc' = "Streaming"
    /\ UNCHANGED <<request, assetCalls, assetArg, assetResp, aiCalls, aiArgs,
                   response, returned, threw>>

\* env.AI.run throws or rejects; index.ts:133-139
AIThrow ==
    /\ pc = "Forwarding"
    /\ resp' = ErrorResponse
    /\ aiOutcome' = "threw"
    /\ pc' = "Errored"
    /\ UNCHANGED <<request, assetCalls, assetArg, assetResp, aiCalls, aiArgs,
                   aiResp, response, returned, threw>>

\* index.ts:50-51: handleChatRequest has returned resp
ChatReturn ==
    /\ pc \in {"Streaming", "Errored"}
    /\ Return(corsify(resp))
    /\ UNCHANGED <<request, assetCalls, assetArg, assetResp, aiCalls, aiArgs,
                   aiOutcome, aiResp, resp, threw>>

\* the steps of fetch once a request is in
Handle ==
    \/ Preflight
    \/ AssetCall
    \/ \E r \in CollabResponses : AssetReturn(r)
    \/ AssetThrow
    \/ ChatCall
    \/ MethodNotAllowed
    \/ NotFound
    \/ Forward
    \/ ParseFail
    \/ \E r \in CollabResponses : AIReturn(r)
    \/ AIThrow
    \/ ChatReturn

Next ==
    \/ \E req \in Requests : Receive(req)
    \/ Release
    \/ Preflight
    \/ AssetCall
    \/ \E r \in CollabResponses : AssetReturn(r)
    \/ AssetThrow
    \/ ChatCall
    \/ MethodNotAllowed
    \/ NotFound
    \/ Forward
    \/ ParseFail
    \/ \E r \in CollabResponses : AIReturn(r)
    \/ AIThrow
    \/ ChatReturn

Spec == Init /\ [][Next]_vars

\* every await settles and the code between two awaits runs to its end
LiveSpec == Spec /\ WF_vars(Handle)

----------------------------------------------------------------------------
(* Vocabulary of the properties *)

ApiPrefix == <<"/", "a", "p", "i", "/">>
ChatPath == <<"/", "a", "p", "i", "/", "c", "h", "a", "t">>

IsChatPost(req) == req.method = "POST" /\ req.path = ChatPath

\* the handler's try block has ended, or is waiting for the inference call
PastParsing == pc \in {"Forwarding", "Streaming", "Errored", "Done"}

\* the three CORS headers, with exactly the values of the contract
HasCors(r) ==
    /\ {"access-control-allow-origin", "access-control-allow-methods",
        "access-control-allow-headers"} \subseteq DOMAIN r.headers
    /\ r.headers["access-control-allow-origin"] = "*"
    /\ r.headers["access-control-allow-methods"]
          = "GET, POST, PUT, DELETE, OPTIONS"
    /\ r.headers["access-control-allow-headers"]
          = "Content-Type, Authorization"

CorsNames ==
    {"access-control-allow-origin", "access-control-allow-methods",
     "access-control-allow-headers"}

\* `out` is `in` but for the three CORS headers
SameButCors(out, in) ==
    /\ out.status = in.status
    /\ out.body = in.body
    /\ DOMAIN out.headers = DOMAIN in.headers \cup CorsNames
    /\ \A n \in DOMAIN in.headers \ CorsNames : out.headers[n] = in.headers[n]

\* the body parses to a message sequence: every element is a message
IsMessageSequence(body) ==
    /\ body.kind \in {"object", "prim", "array"}
    /\ body.messages.kind \in {"absent", "array"}
    /\ \A i \in 1..Len(body.messages.items) :
          body.messages.items[i].kind = "msg"

----------------------------------------------------------------------------
(* The claims *)

\* C1: for a POST to /api/chat whose body parses to a message sequence M
\* (empty when messages is absent), the sequence given to the inference
\* collaborator is M itself when some element of M has role "system", and
\* otherwise the fixed system message followed by M; nothing of M is
\* dropped, reordered or altered.
C1_ForwardedMessages ==
    (IsChatPost(request) /\ IsMessageSequence(request.body) /\ PastParsing) =>
        LET M == request.body.messages.items
            F == aiArgs.messages
            fixed == [kind |-> "msg", role |-> "system",
                      content |-> SYSTEM_PROMPT]
        IN  /\ aiCalls = 1
            /\ (\E i \in 1..Len(M) : M[i].role = "system") => F = M
            /\ (\A i \in 1..Len(M) : M[i].role # "system") =>
                  F = <<fixed>> \o M
            /\ Len(F) - Len(M) \in {0, 1}
            /\ SubSeq(F, Len(F) - Len(M) + 1, Len(F)) = M

\* a system message at position 2 only: forwarded as it came
C1_Witness ==
    /\ pc = "Done"
    /\ IsChatPost(request)
    /\ request.body.messages.items
          = <<MsgElem("user", "x"), MsgElem("system", "custom")>>
    /\ aiArgs.messages = request.body.messages.items

\* C2: every response fetch returns carries the three CORS headers with
\* exactly the contract's values, whatever the collaborator's response had.
C2_CorsOnEveryResponse == returned => HasCors(response)

\* an asset response that came with another Access-Control-Allow-Origin
C2_Witness ==
    /\ returned
    /\ assetCalls = 1
    /\ "access-control-allow-origin" \in DOMAIN assetResp.headers
    /\ assetResp.headers["access-control-allow-origin"] = "https://example.com"
    /\ response.headers["access-control-allow-origin"] = "*"

\* C3: for a POST to /api/chat, an exception while parsing the body or while
\* invoking the inference collaborator ends in a returned response of status
\* 500, body {"error":"Failed to process request"} and content-type
\* application/json; no exception escapes.
C3_ErrorResponse ==
    IsChatPost(request) =>
        /\ ~threw
        /\ (pc = "Done" /\ aiOutcome # "returned") =>
              /\ returned
              /\ response.status = 500
              /\ response.body.data = "{\"error\":\"Failed to process request\"}"
              /\ "content-type" \in DOMAIN response.headers
              /\ response.headers["content-type"] = "application/json"

\* the inference call threw
C3_Witness ==
    /\ pc = "Done"
    /\ IsChatPost(request)
    /\ aiOutcome = "threw"
    /\ response.status = 500
    /\ response.headers["content-type"] = "application/json"

\* C4: a response produced by the asset or the inference collaborator is
\* returned with its status, its body and every header of it, only the
\* three CORS headers being set; the handler returns the inference response
\* unmodified.
C4_PassThrough ==
    /\ (returned /\ assetCalls = 1) => SameButCors(response, assetResp)
    /\ (returned /\ aiOutcome = "returned") => SameButCors(response, aiResp)
    /\ aiOutcome = "returned" => resp = aiResp

\* an inference response of status 404 with a header of its own
C4_Witness ==
    /\ pc = "Done"
    /\ aiOutcome = "returned"
    /\ aiResp.status = 404
    /\ "x-custom" \in DOMAIN aiResp.headers
    /\ response.status = 404
    /\ response.headers["x-custom"] = "1"

\* C5: an OPTIONS request to a path starting with /api/ gets status 204, an
\* empty body and the three CORS headers, before any other route: no
\* collaborator is called and the chat handler is not entered.
C5_Preflight ==
    (request.method = "OPTIONS" /\ StartsWith(request.path, ApiPrefix)) =>
        /\ pc \in {"Received", "Done"}
        /\ assetCalls = 0
        /\ aiCalls = 0
        /\ ~threw
        /\ pc = "Done" =>
              /\ returned
              /\ response.status = 204
              /\ response.body = NullBody
              /\ HasCors(response)

\* OPTIONS to /api/chat itself
C5_Witness ==
    /\ pc = "Done"
    /\ request.method = "OPTIONS"
    /\ request.path = ChatPath
    /\ response.status = 204

\* C6: a request whose path is / or does not start with /api/, whatever its
\* method, is given to the asset collaborator as it came and answered with
\* that collaborator's response; the router answers nothing of its own and
\* the inference collaborator is never invoked.
C6_AssetDelegation ==
    (pc # "Idle"
     /\ (request.path = <<"/">> \/ ~StartsWith(request.path, ApiPrefix))) =>
        /\ aiCalls = 0
        /\ pc \in {"Received", "AssetCall", "Done"}
        /\ pc \in {"AssetCall", "Done"} =>
              (assetCalls = 1 /\ assetArg = request)
        /\ pc = "Done" =>
              \/ threw /\ ~returned
              \/ /\ returned
                 /\ assetResp \in CollabResponses
                 /\ response.status = assetResp.status
                 /\ response.body = assetResp.body

\* OPTIONS to /apiary
C6_Witness ==
    /\ pc = "Done"
    /\ request.method = "OPTIONS"
    /\ request.path = <<"/", "a", "p", "i", "a", "r", "y">>
    /\ returned
    /\ response.status = 404

\* C7 as stated: a request to /api/chat with any method other than POST gets
\* 405 "Method not allowed" and the chat handler is not invoked.
C7_Original ==
    (request.path = ChatPath /\ request.method # "POST") =>
        /\ pc \in {"Received", "Done"}
        /\ aiCalls = 0
        /\ pc = "Done" =>
              /\ returned
              /\ response.status = 405
              /\ response.body.data = "Method not allowed"

\* C7 (amended): a request to /api/chat with a method other than POST and
\* other than OPTIONS gets 405 "Method not allowed" and the chat handler is
\* not invoked.
C7_MethodNotAllowed ==
    (request.path = ChatPath /\ request.method \notin {"POST", "OPTIONS"}) =>
        /\ pc \in {"Received", "Done"}
        /\ aiCalls = 0
        /\ pc = "Done" =>
              /\ returned
              /\ response.status = 405
              /\ response.body.data = "Method not allowed"

\* GET /api/chat
C7_Witness ==
    /\ pc = "Done"
    /\ request.path = ChatPath
    /\ request.method = "GET"
    /\ response.status = 405

\* C8: a request whose path starts with /api/ and is not /api/chat, and that
\* is not an OPTIONS preflight, gets 404 "Not found" whatever its method;
\* there is no route but preflight, asset delegation and /api/chat.
C8_NotFound ==
    /\ (StartsWith(request.path, ApiPrefix) /\ request.path # ChatPath
        /\ request.method # "OPTIONS") =>
          /\ pc \in {"Received", "Done"}
          /\ assetCalls = 0
          /\ aiCalls = 0
          /\ pc = "Done" =>
                /\ returned
                /\ response.status = 404
                /\ response.body.data = "Not found"
    /\ (pc = "Done" /\ returned) =>
          \/ assetCalls = 1
          \/ request.path = ChatPath
          \/ request.method = "OPTIONS" /\ response.status = 204
          \/ response.status = 404

\* POST /api/chat/
C8_Witness ==
    /\ pc = "Done"
    /\ request.method = "POST"
    /\ request.path = ChatPath \o <<"/">>
    /\ response.status = 404
    /\ response.body.data = "Not found"

\* C9 as stated: for a POST to /api/chat whose body parses as JSON, whatever
\* the parsed value, the inference collaborator is invoked.
C9_Original ==
    (IsChatPost(request) /\ request.body.kind \notin {"none", "invalid"}
     /\ PastParsing) => aiCalls = 1

\* the parsed values the try block carries to the inference call: not null;
\* messages absent or an array; no null element before the first system
\* message of the array
Forwardable(body) ==
    /\ body.kind \in {"prim", "array", "object"}
    /\ body.messages.kind \in {"absent", "array"}
    /\ \A i \in 1..Len(body.messages.items) :
          body.messages.items[i].kind = "null" =>
             \E j \in 1..(i - 1) :
                /\ body.messages.items[j].kind = "msg"
                /\ body.messages.items[j].role = "system"

\* C9 (amended): for a POST to /api/chat the inference collaborator is
\* invoked exactly when the body parses as JSON to a value that is not null,
\* whose messages member is absent or an array, and whose array has no null
\* element before its first system message; every other body ends Errored
\* before forwarding.
C9_Preconditions ==
    (IsChatPost(request) /\ PastParsing) =>
        /\ aiCalls = 1 <=> Forwardable(request.body)
        /\ ~Forwardable(request.body) => (aiOutcome = "none" /\ resp.status = 500)

\* { "messages": null } parses and ends in the 500 response
C9_Witness ==
    /\ pc = "Done"
    /\ IsChatPost(request)
    /\ request.body.kind = "object"
    /\ request.body.messages.kind = "null"
    /\ aiCalls = 0
    /\ response.status = 500

Rank(p) ==
    CASE p = "Idle" -> 0
      [] p = "Received" -> 1
      [] p \in {"Parsing", "AssetCall"} -> 2
      [] p = "Forwarding" -> 3
      [] p \in {"Streaming", "Errored"} -> 4
      [] p = "Done" -> 5

C10_Invocation ==
    /\ aiCalls <= 1
    /\ aiCalls = 1 =>
          (IsChatPost(request) /\ request.body.kind \notin {"none", "invalid"})
    /\ (pc \in {"Forwarding", "Streaming"} \/ aiOutcome # "none") => aiCalls = 1
    /\ (pc = "Done" /\ aiOutcome = "threw") =>
          (returned /\ response.status = 500)

C10_Order ==
    [][pc' # pc => (Rank(pc') > Rank(pc) \/ (pc = "Done" /\ pc' = "Idle"))]_vars

\* C10: the steps of one request go forward only, Received, Parsing,
\* Forwarding, Streaming or Errored, Done; the inference collaborator is
\* invoked at most once, only for a POST to /api/chat whose body parsed; a
\* failed invocation is not retried and ends in the 500 response; every
\* request received reaches Done.
C10_Lifecycle ==
    /\ []C10_Invocation
    /\ C10_Order
    /\ (pc = "Received" ~> pc = "Done")

\* a failed invocation, answered with 500 after one call
C10_Witness ==
    /\ pc = "Done"
    /\ aiOutcome = "threw"
    /\ aiCalls = 1
    /\ returned
    /\ response.status = 500
    /\ response.body.data = "{\"error\":\"Failed to process request\"}"

====
